---- MODULE Spec2Model ----
(***************************************************************************)
(* Hospital_Management_System: the triage queue (linked list), the         *)
(* per-patient treatment stack and the HospitalManagementSystem facade of  *)
(* src/hospital_system.py, as a state machine.                             *)
(*                                                                         *)
(* Python objects live in heaps: a reference is the index of the object in *)
(* its heap and Null (0) is a None reference.  None in a string field is   *)
(* NoneVal.  Text built by an f-string is the sequence of its pieces; a    *)
(* plain text t is <<t>>.                                                  *)
(***************************************************************************)
EXTENDS Integers, Sequences, FiniteSets, TLC

\* ------------------------------------------------------------------ bounds
MaxPatients == 3   \* PatientNodes ever created (the two pre-loaded included)
MaxItems == 2      \* add_treatment_step is offered while all histories together hold fewer items
MaxCalls == 5      \* push / pop calls made on the TreatmentStack exercised on its own
MaxRequests == 5   \* requests served by the routes of app.py
MaxThreadCalls == 3 \* facade calls started by the request threads
MaxAdded == 2      \* nodes added to the SpecializationTree after _seed_structure

\* ------------------------------------------------------------------ inputs
Null == 0
NoneVal == "None"

\* str(uuid.uuid4())[:8] draws one of the 16^8 tokens.  The program only
\* compares tokens for equality, so a draw is either a token drawn before or
\* a token never drawn, and the first unused name stands for the latter.
IdTokens == <<"a1b2c3d4", "0e5f6a7b", "9c8d7e6f", "13579bdf", "2468ace0">>
Ids == {IdTokens[i] : i \in DOMAIN IdTokens}
Names == {"Carol"}
Conditions == {"Migraine"}
Details == {"Administered medication"}
Doctors == {"Dr. Ramon Cruz"}
\* datetime.datetime.now().strftime(...) at second precision
Timestamps == {"2024-01-01 10:00:00"}
\* what the TreatmentStack exercised on its own is given
StepDetails == {"A", "B"}
StepTimestamps == {"2024-01-01 10:00:00", "2024-01-01 10:00:01"}

VARIABLES
    patient_queue,              \* PatientQueue: heap of PatientNodes, head, tail, size
    stacks,                     \* heap of TreatmentStack objects
    patient_records,            \* dict patient_id -> TreatmentStack reference
    specializations,            \* SpecializationTree: heap of SpecializationNodes
    current_treatment_id,
    current_patient_name,
    current_patient_condition,
    current_patient_doctor,
    op,                         \* the facade method that ran last
    ret,                        \* what it returned
    enqLog,                     \* entries in the order enqueue created them
    deqLog,                     \* entries in the order dequeue returned them
    ledger,                     \* a TreatmentStack exercised on its own (SpecStack)
    ledgerLog,                  \* the push / pop calls made on it, with what each returned
    popped,                     \* what its last pop returned
    tree_call,                  \* the last call made on the SpecializationTree and its result
    threads,                    \* per request thread: the statement it is at and its locals
    started,                    \* facade calls the request threads have started
    interleaved,                \* a thread has run while another was inside a call
    request,                    \* the last request app.py served: route and JSON body
    response,                   \* what its route answered
    requests                    \* number of requests app.py has served

vars == <<patient_queue, stacks, patient_records, specializations,
          current_treatment_id,
          current_patient_name, current_patient_condition,
          current_patient_doctor, op, ret, enqLog, deqLog,
          ledger, ledgerLog, popped, tree_call, threads, started, interleaved,
          request, response, requests>>

\* ------------------------------------------------------------ sequences
Last(s) == s[Len(s)]
Front(s) == SubSeq(s, 1, Len(s) - 1)

\* d[k] = v on a Python dict
DictSet(d, k, v) == [x \in (DOMAIN d) \cup {k} |-> IF x = k THEN v ELSE d[x]]

\* ------------------------------------------------------------ PatientNode
PatientNode(patient_id, name, condition) ==
    [patient_id |-> patient_id, name |-> name, condition |-> condition, next |-> Null]

node_to_dict(n) == [id |-> n.patient_id, name |-> n.name, condition |-> n.condition]

\* ----------------------------------------------------------- PatientQueue
NewPatientQueue == [heap |-> <<>>, head |-> Null, tail |-> Null, size |-> 0]

is_empty(q) == q.head = Null

\* the tokens the nodes created so far carry
tokens_drawn(q) == {q.heap[i].patient_id : i \in DOMAIN q.heap}

\* what str(uuid.uuid4())[:8] can return in enqueue
uuid4_tokens(q) ==
    tokens_drawn(q) \cup {IdTokens[Cardinality(tokens_drawn(q)) + 1]}

\* the reference of the node enqueue creates
enqueue_result(q) == Len(q.heap) + 1

\* enqueue linking the new node in front of the head
enqueue_at_head(q, patient_id, name, condition) ==
    LET new_patient == enqueue_result(q)
        node == [PatientNode(patient_id, name, condition) EXCEPT !.next = q.head]
    IN  [heap |-> Append(q.heap, node), head |-> new_patient,
         tail |-> IF is_empty(q) THEN new_patient ELSE q.tail, size |-> q.size + 1]

enqueue(q, patient_id, name, condition) ==
    LET new_patient == enqueue_result(q)
        heap1 == Append(q.heap, PatientNode(patient_id, name, condition))
    IN  IF is_empty(q)
        THEN [heap |-> heap1, head |-> new_patient, tail |-> new_patient,
              size |-> q.size + 1]
        ELSE [heap |-> IF q.tail # Null
                       THEN [heap1 EXCEPT ![q.tail].next = new_patient]
                       ELSE heap1,
              head |-> q.head, tail |-> new_patient, size |-> q.size + 1]

\* dequeue handing out the newest node instead of the head
dequeue_result_newest(q) == IF is_empty(q) THEN Null ELSE q.tail

\* dequeue handing out None whatever the queue holds
dequeue_result_none(q) == Null

\* the reference dequeue returns (Null for None)
dequeue_result(q) == IF is_empty(q) THEN Null ELSE q.head

\* dequeue without lines 57-58: the tail is kept when the queue empties
dequeue_keeps_tail(q) ==
    IF is_empty(q)
    THEN q
    ELSE [heap |-> q.heap, head |-> q.heap[q.head].next, tail |-> q.tail,
          size |-> q.size - 1]

\* dequeue without lines 51-52: the size is counted down on an empty queue too
dequeue_counts_down(q) ==
    IF is_empty(q)
    THEN [q EXCEPT !.size = @ - 1]
    ELSE LET head1 == q.heap[q.head].next
         IN  [heap |-> q.heap, head |-> head1,
              tail |-> IF head1 = Null THEN Null ELSE q.tail,
              size |-> q.size - 1]

dequeue(q) ==
    IF is_empty(q)
    THEN q
    ELSE LET head1 == q.heap[q.head].next
         IN  [heap |-> q.heap, head |-> head1,
              tail |-> IF head1 = Null THEN Null ELSE q.tail,
              size |-> q.size - 1]

RECURSIVE to_list_from(_, _)
to_list_from(q, current) ==
    IF current = Null
    THEN <<>>
    ELSE <<node_to_dict(q.heap[current])>> \o to_list_from(q, q.heap[current].next)

to_list(q) == to_list_from(q, q.head)

\* --------------------------------------------------------- TreatmentStack
NewTreatmentStack ==
    [items |-> <<>>, patient_id |-> NoneVal, initial_condition |-> "",
     status |-> "Waiting", assigned_doctor |-> NoneVal]

push(s, timestamp, treatment_detail) ==
    [s EXCEPT !.items = Append(@, [timestamp |-> timestamp, detail |-> treatment_detail])]

\* None where a step dict is expected
NoStep == [timestamp |-> NoneVal, detail |-> <<>>]

\* pop handing out the oldest item
pop_result_oldest(s) == IF s.items = <<>> THEN NoStep ELSE Head(s.items)

\* pop handing out an empty dict where it should hand out None
pop_result_empty_dict(s) ==
    IF s.items = <<>> THEN [timestamp |-> "", detail |-> <<>>] ELSE Last(s.items)

\* what pop returns
pop_result(s) == IF s.items = <<>> THEN NoStep ELSE Last(s.items)

\* the stack pop leaves
pop(s) == IF s.items = <<>> THEN s ELSE [s EXCEPT !.items = Front(@)]

get_history(s) == s.items

\* ----------------------------------------------------- SpecializationTree
SpecializationNode(name) == [name |-> name, doctors |-> <<>>, children |-> <<>>]

\* str.lower() on the names the directory is addressed by; any other text
\* used here holds no upper-case letter
lower(name) ==
    CASE name = "City General Hospital" -> "city general hospital"
      [] name = "Emergency" -> "emergency"
      [] name = "Internal Medicine" -> "internal medicine"
      [] name = "Surgery" -> "surgery"
      [] name = "Cardiology" -> "cardiology"
      [] name = "CARDIOLOGY" -> "cardiology"
      [] name = "Dermatology" -> "dermatology"
      [] name = "Pediatrics" -> "pediatrics"
      [] name = "Orthopedics" -> "orthopedics"
      [] name = "Electrophysiology" -> "electrophysiology"
      [] name = "Sports Medicine" -> "sports medicine"
      [] name = "Trauma" -> "trauma"
      [] name = "Interventional Cardiology" -> "interventional cardiology"
      [] name = "NoSuchDept" -> "nosuchdept"
      [] name = "X" -> "x"
      [] OTHER -> name

\* a tree is the heap of its nodes; the root is the first node
RootRef == 1

NewSpecializationTree(hospital_name) == <<SpecializationNode(hospital_name)>>

RECURSIVE find_node(_, _, _)
RECURSIVE find_in_children(_, _, _)
\* _find_node: the reference of the first match in pre-order, Null for None
find_node(t, current_node, name) ==
    IF lower(t[current_node].name) = lower(name)
    THEN current_node
    ELSE find_in_children(t, t[current_node].children, name)

\* the for loop of _find_node over the children still to visit
find_in_children(t, children, name) ==
    IF children = <<>>
    THEN Null
    ELSE LET result == find_node(t, Head(children), name)
         IN  IF result # Null THEN result ELSE find_in_children(t, Tail(children), name)

add_specialization_result(t, parent_name) == find_node(t, RootRef, parent_name) # Null

\* add_specialization putting the new node before its siblings
add_specialization_first_child(t, parent_name, child_name) ==
    LET parent_node == find_node(t, RootRef, parent_name)
    IN  IF parent_node # Null
        THEN Append([t EXCEPT ![parent_node].children = <<Len(t) + 1>> \o @],
                    SpecializationNode(child_name))
        ELSE t

add_specialization(t, parent_name, child_name) ==
    LET parent_node == find_node(t, RootRef, parent_name)
    IN  IF parent_node # Null
        THEN Append([t EXCEPT ![parent_node].children = Append(@, Len(t) + 1)],
                    SpecializationNode(child_name))
        ELSE t

\* doctors[doctor_name] = description on an insertion-ordered dict
doctors_set(doctors, doctor_name, description) ==
    IF \E i \in DOMAIN doctors : doctors[i].name = doctor_name
    THEN [i \in DOMAIN doctors |->
             IF doctors[i].name = doctor_name
             THEN [name |-> doctor_name, description |-> description]
             ELSE doctors[i]]
    ELSE Append(doctors, [name |-> doctor_name, description |-> description])

assign_doctor_result(t, specialization_name) ==
    find_node(t, RootRef, specialization_name) # Null

\* assign_doctor writing to the newest node of that name
assign_doctor_newest_match(t, specialization_name, doctor_name, description) ==
    LET matches == {n \in DOMAIN t : lower(t[n].name) = lower(specialization_name)}
        node == IF matches = {} THEN Null
                ELSE CHOOSE n \in matches : \A m \in matches : m <= n
    IN  IF node # Null
        THEN [t EXCEPT ![node].doctors = doctors_set(@, doctor_name, description)]
        ELSE t

assign_doctor(t, specialization_name, doctor_name, description) ==
    LET node == find_node(t, RootRef, specialization_name)
    IN  IF node # Null
        THEN [t EXCEPT ![node].doctors = doctors_set(@, doctor_name, description)]
        ELSE t

\* the calls of _seed_structure, in order
SeedCalls(root_name) == <<
    <<"add", root_name, "Emergency">>,
    <<"add", root_name, "Internal Medicine">>,
    <<"add", root_name, "Surgery">>,
    <<"add", "Internal Medicine", "Cardiology">>,
    <<"add", "Internal Medicine", "Dermatology">>,
    <<"add", "Internal Medicine", "Pediatrics">>,
    <<"add", "Surgery", "Orthopedics">>,
    <<"add", "Cardiology", "Electrophysiology">>,
    <<"add", "Orthopedics", "Sports Medicine">>,
    <<"add", "Emergency", "Trauma">>,
    <<"doctor", "Emergency", "Dr. Ramon Cruz",
      "Specializes in immediate care and triage management.">>,
    <<"doctor", "Emergency", "Dra. Sofia Reyes",
      "Lead physician for non-critical emergency cases.">>,
    <<"doctor", "Trauma", "Dr. Paolo Ocampo",
      "Expert in severe physical injury and complex trauma protocols.">>,
    <<"doctor", "Trauma", "Dra. Lea Perez",
      "Focuses on stabilization and surgical planning for acute trauma.">>,
    <<"doctor", "Internal Medicine", "Dr. Antonio Dizon",
      "General internal medicine and chronic disease management.">>,
    <<"doctor", "Internal Medicine", "Dra. Maria Santos",
      "Focuses on diagnostic challenges and long-term adult care.">>,
    <<"doctor", "Cardiology", "Dr. Jose Garcia",
      "Non-invasive cardiology and heart disease prevention.">>,
    <<"doctor", "Electrophysiology", "Dra. Christine Lopez",
      "Specialist in heart rhythm disorders and pacemaker implantation.">>,
    <<"doctor", "Dermatology", "Dra. Elena Mendoza",
      "Expert in complex skin conditions and dermatological procedures.">>,
    <<"doctor", "Pediatrics", "Dra. Leila Gonzales",
      "Dedicated to pediatric primary care and infectious diseases in children.">>,
    <<"doctor", "Surgery", "Dr. Roberto Lim",
      "General surgeon with focus on abdominal and soft tissue procedures.">>,
    <<"doctor", "Orthopedics", "Dra. Carmen Ramos",
      "Specialist in joint replacement and geriatric orthopedic care.">>,
    <<"doctor", "Sports Medicine", "Dr. Miguel Dela Cruz",
      "Expert in musculoskeletal injuries and rehabilitation.">> >>

RECURSIVE seed_structure(_, _)
seed_structure(t, calls) ==
    IF calls = <<>>
    THEN t
    ELSE LET c == Head(calls)
         IN  seed_structure(IF c[1] = "add"
                            THEN add_specialization(t, c[2], c[3])
                            ELSE assign_doctor(t, c[2], c[3], c[4]),
                            Tail(calls))

SpecializationTree(hospital_name) ==
    seed_structure(NewSpecializationTree(hospital_name), SeedCalls(hospital_name))

\* ----------------------------------------------- HospitalManagementSystem
\* f"Initial Triage for {patient.condition}."
triage_detail(condition) == <<"Initial Triage for ", condition, ".">>

\* a detail text passed in by the caller
plain(text) == <<text>>

\* the number of items all TreatmentStacks of a heap hold together
RECURSIVE ItemsHeld(_)
ItemsHeld(heap) ==
    IF heap = <<>> THEN 0 ELSE Len(Last(heap).items) + ItemsHeld(Front(heap))

\* what only the request threads write
conc_alone == <<threads, started, interleaved>>

alone == <<ledger, ledgerLog, popped, tree_call, conc_alone>>

\* the threads of the development server
Threads == {1, 2}

\* a thread that is in no facade call
Idle == [pc |-> "idle", name |-> NoneVal, condition |-> NoneVal, new_patient |-> Null,
         patient |-> Null, new_record |-> Null, record |-> Null]

\* no call made on the tree since it was seeded
NoCall == [call |-> "__init__", name |-> NoneVal, arg |-> NoneVal, ret |-> TRUE]

\* what only the routes of app.py write
app_alone == <<request, response, requests>>

\* no route has been asked or has answered yet
NoRequest == [route |-> NoneVal, json |-> <<>>]
NoResponse == [route |-> NoneVal, code |-> 0, status |-> NoneVal, message |-> <<>>]

hospital_name == "City General Hospital"

\* self.specializations = SeededTree
SeededTree == SpecializationTree(hospital_name)

slot == <<current_treatment_id, current_patient_name, current_patient_condition,
          current_patient_doctor>>

\* the record the facade reads for a patient_id that is a key of patient_records
record_of(patient_id) == stacks[patient_records[patient_id]]

Init ==
    \E id1 \in uuid4_tokens(NewPatientQueue) :
    \E id2 \in uuid4_tokens(enqueue(NewPatientQueue, id1, "Alice Johnson", "Severe fever")) :
        LET q1 == enqueue(NewPatientQueue, id1, "Alice Johnson", "Severe fever")
            p1 == q1.heap[enqueue_result(NewPatientQueue)]
            q2 == enqueue(q1, id2, "Bob Davis", "Broken arm")
            p2 == q2.heap[enqueue_result(q1)]
            r1 == [NewTreatmentStack EXCEPT !.patient_id = p1.patient_id,
                                            !.initial_condition = p1.condition]
            r2 == [NewTreatmentStack EXCEPT !.patient_id = p2.patient_id,
                                            !.initial_condition = p2.condition]
        IN  /\ patient_queue = q2
            /\ stacks = <<r1, r2>>
            /\ patient_records = DictSet(DictSet(<<>>, p1.patient_id, 1), p2.patient_id, 2)
            /\ specializations = SeededTree
            /\ current_treatment_id = NoneVal
            /\ current_patient_name = NoneVal
            /\ current_patient_condition = NoneVal
            /\ current_patient_doctor = NoneVal
            /\ op = "__init__"
            /\ ret = NoneVal
            /\ enqLog = <<node_to_dict(p1), node_to_dict(p2)>>
            /\ deqLog = <<>>
            /\ ledger = NewTreatmentStack
            /\ ledgerLog = <<>>
            /\ popped = NoStep
            /\ tree_call = NoCall
            /\ threads = [th \in Threads |-> Idle]
            /\ started = 0
            /\ interleaved = FALSE
            /\ request = NoRequest
            /\ response = NoResponse
            /\ requests = 0

register_patient(name, condition) ==
    /\ Len(patient_queue.heap) < MaxPatients
    /\ \E new_id \in uuid4_tokens(patient_queue) :
        LET q1 == enqueue(patient_queue, new_id, name, condition)
            new_patient == q1.heap[enqueue_result(patient_queue)]
            new_record == [NewTreatmentStack EXCEPT
                               !.patient_id = new_patient.patient_id,
                               !.initial_condition = condition]
        IN  /\ patient_queue' = q1
            /\ stacks' = Append(stacks, new_record)
            /\ patient_records' =
                   DictSet(patient_records, new_patient.patient_id, Len(stacks) + 1)
            /\ ret' = new_patient.patient_id
            /\ enqLog' = Append(enqLog, node_to_dict(new_patient))
    /\ op' = "register_patient"
    /\ UNCHANGED <<slot, deqLog, alone,
                   specializations>>

\* the reset without line 292: the name of the last patient stays
cleared_slot_stale_name == <<NoneVal, current_patient_name, NoneVal, NoneVal>>

\* lines 291-294: the slot after the reset
cleared_slot == <<NoneVal, NoneVal, NoneVal, NoneVal>>

\* the slot filled without line 298
populated_slot_no_name(p) == <<p.patient_id, NoneVal, p.condition, NoneVal>>

\* lines 297-299 after the reset: the slot for the dequeued node p
populated_slot(p) == <<p.patient_id, p.name, p.condition, NoneVal>>

\* treat_next_patient without line 303: the ledger's status is left as it was
treat_next_patient_keeps_status ==
    LET patient == dequeue_result(patient_queue)
        new_slot == IF patient # Null
                    THEN populated_slot(patient_queue.heap[patient])
                    ELSE cleared_slot
    IN  /\ patient_queue' = dequeue(patient_queue)
        /\ current_treatment_id' = new_slot[1]
        /\ current_patient_name' = new_slot[2]
        /\ current_patient_condition' = new_slot[3]
        /\ current_patient_doctor' = new_slot[4]
        /\ IF patient # Null
           THEN LET p == patient_queue.heap[patient]
                    record == patient_records[p.patient_id]
                IN  /\ \E timestamp \in Timestamps :
                           stacks' = [stacks EXCEPT ![record] =
                                          push(@, timestamp, triage_detail(p.condition))]
                    /\ deqLog' = Append(deqLog, node_to_dict(p))
                    /\ ret' = p.patient_id
           ELSE /\ ret' = NoneVal
                /\ UNCHANGED <<stacks, deqLog>>
        /\ op' = "treat_next_patient"
        /\ UNCHANGED <<patient_records, enqLog, alone, specializations>>

treat_next_patient ==
    LET patient == dequeue_result(patient_queue)
        new_slot == IF patient # Null
                    THEN populated_slot(patient_queue.heap[patient])
                    ELSE cleared_slot
    IN  /\ patient_queue' = dequeue(patient_queue)
        /\ current_treatment_id' = new_slot[1]
        /\ current_patient_name' = new_slot[2]
        /\ current_patient_condition' = new_slot[3]
        /\ current_patient_doctor' = new_slot[4]
        /\ IF patient # Null
           THEN LET p == patient_queue.heap[patient]
                    record == patient_records[p.patient_id]
                IN  /\ \E timestamp \in Timestamps :
                           stacks' = [stacks EXCEPT ![record] =
                                          push([@ EXCEPT !.status = "In Treatment"],
                                               timestamp, triage_detail(p.condition))]
                    /\ deqLog' = Append(deqLog, node_to_dict(p))
                    /\ ret' = p.patient_id
           ELSE /\ ret' = NoneVal
                /\ UNCHANGED <<stacks, deqLog>>
        /\ op' = "treat_next_patient"
        /\ UNCHANGED <<patient_records, enqLog, alone, specializations>>

add_treatment_step(detail) ==
    /\ IF current_treatment_id = NoneVal
       THEN /\ ret' = FALSE
            /\ UNCHANGED stacks
       ELSE LET record == patient_records[current_treatment_id]
            IN  /\ ItemsHeld(stacks) < MaxItems
                /\ \E timestamp \in Timestamps :
                       stacks' = [stacks EXCEPT ![record] =
                                      push(@, timestamp, plain(detail))]
                /\ ret' = TRUE
    /\ op' = "add_treatment_step"
    /\ UNCHANGED <<patient_queue, patient_records, slot, enqLog, deqLog, alone,
                   specializations>>

undo_last_treatment ==
    /\ IF current_treatment_id = NoneVal
       THEN /\ ret' = FALSE
            /\ UNCHANGED stacks
       ELSE LET record == patient_records[current_treatment_id]
            IN  /\ stacks' = [stacks EXCEPT ![record] = pop(@)]
                /\ ret' = (pop_result(stacks[record]) # NoStep)
    /\ op' = "undo_last_treatment"
    /\ UNCHANGED <<patient_queue, patient_records, slot, enqLog, deqLog, alone,
                   specializations>>

\* assign_doctor_to_current reporting success without a current patient
assign_doctor_to_current_always_true(doctor_name) ==
    /\ IF current_treatment_id = NoneVal
       THEN UNCHANGED stacks
       ELSE LET record == patient_records[current_treatment_id]
            IN  stacks' = [stacks EXCEPT ![record].assigned_doctor = doctor_name]
    /\ ret' = TRUE
    /\ op' = "assign_doctor_to_current"
    /\ UNCHANGED <<patient_queue, patient_records, slot, enqLog, deqLog, alone,
                   specializations>>

assign_doctor_to_current(doctor_name) ==
    /\ IF current_treatment_id = NoneVal
       THEN /\ ret' = FALSE
            /\ UNCHANGED stacks
       ELSE LET record == patient_records[current_treatment_id]
            IN  /\ stacks' = [stacks EXCEPT ![record].assigned_doctor = doctor_name]
                /\ ret' = TRUE
    /\ op' = "assign_doctor_to_current"
    /\ UNCHANGED <<patient_queue, patient_records, slot, enqLog, deqLog, alone,
                   specializations>>

\* get_status_data showing the slot's own doctor field
get_status_data_cached_doctor ==
    LET has_record == current_treatment_id \in DOMAIN patient_records
    IN  [queue_size |-> patient_queue.size,
         queue_data |-> to_list(patient_queue),
         current_patient_id |-> current_treatment_id,
         current_patient_name |-> current_patient_name,
         current_patient_condition |-> current_patient_condition,
         assigned_doctor |-> current_patient_doctor,
         history_data |-> IF has_record
                          THEN get_history(record_of(current_treatment_id))
                          ELSE <<>>]

\* patient_records.get(current_treatment_id) is None exactly when the key is absent
get_status_data ==
    LET has_record == current_treatment_id \in DOMAIN patient_records
    IN  [queue_size |-> patient_queue.size,
         queue_data |-> to_list(patient_queue),
         current_patient_id |-> current_treatment_id,
         current_patient_name |-> current_patient_name,
         current_patient_condition |-> current_patient_condition,
         assigned_doctor |-> IF has_record
                             THEN record_of(current_treatment_id).assigned_doctor
                             ELSE NoneVal,
         history_data |-> IF has_record
                          THEN get_history(record_of(current_treatment_id))
                          ELSE <<>>]

\* f"Patient {patient_id}"
placeholder_name(patient_id) == <<"Patient ", patient_id>>

\* the while loop of get_patient_name_by_id from the node current on
RECURSIVE name_from(_, _, _)
name_from(q, current, patient_id) ==
    IF current = Null
    THEN placeholder_name(patient_id)
    ELSE IF q.heap[current].patient_id = patient_id
         THEN plain(q.heap[current].name)
         ELSE name_from(q, q.heap[current].next, patient_id)

\* get_patient_name_by_id answering with the placeholder for everyone
get_patient_name_by_id_no_scan(patient_id) == placeholder_name(patient_id)

get_patient_name_by_id(patient_id) ==
    name_from(patient_queue, patient_queue.head, patient_id)

\* None where get_patient_record finds no record
NoRecord == [id |-> NoneVal]

get_patient_record(patient_id) ==
    IF patient_id \notin DOMAIN patient_records
    THEN NoRecord
    ELSE LET record == record_of(patient_id)
         IN  [id |-> patient_id,
              name |-> get_patient_name_by_id(patient_id),
              full_visits |-> <<
                  [registration_time |->
                       IF get_history(record) # <<>>
                       THEN get_history(record)[1].timestamp
                       ELSE "N/A",
                   condition |-> record.initial_condition,
                   status |-> record.status,
                   assigned_doctor |-> record.assigned_doctor,
                   treatment_history |-> get_history(record)]>>]

RegisterPatient ==
    /\ \E name \in Names, condition \in Conditions : register_patient(name, condition)
    /\ UNCHANGED app_alone
TreatNextPatient == treat_next_patient /\ UNCHANGED app_alone
AddTreatmentStep ==
    /\ \E detail \in Details : add_treatment_step(detail)
    /\ UNCHANGED app_alone
UndoLastTreatment == undo_last_treatment /\ UNCHANGED app_alone
AssignDoctorToCurrent ==
    /\ \E doctor_name \in Doctors : assign_doctor_to_current(doctor_name)
    /\ UNCHANGED app_alone

Next ==
    \/ RegisterPatient
    \/ TreatNextPatient
    \/ AddTreatmentStep
    \/ UndoLastTreatment
    \/ AssignDoctorToCurrent

Spec == Init /\ [][Next]_vars

\* registration and treatment only, with treat_next_patient called again and again:
\* the calls that move the queue, with arrivals that differ in name and condition
ArrivalNames == {"Carol", "Dan"}
ArrivalConditions == {"Migraine", "Fracture"}

RegisterArrival ==
    /\ \E name \in ArrivalNames, condition \in ArrivalConditions :
          register_patient(name, condition)
    /\ UNCHANGED app_alone

NextLive ==
    \/ RegisterArrival
    \/ TreatNextPatient

SpecLive == Init /\ [][NextLive]_vars /\ WF_vars(TreatNextPatient)

\* ------------------------------------- a TreatmentStack exercised on its own
facade == <<patient_queue, stacks, patient_records, specializations, slot, op, ret,
            enqLog, deqLog>>

StackPush ==
    /\ Len(ledgerLog) < MaxCalls
    /\ \E treatment_detail \in StepDetails, timestamp \in StepTimestamps :
        /\ ledger' = push(ledger, timestamp, plain(treatment_detail))
        /\ ledgerLog' = Append(ledgerLog,
               [call |-> "push",
                step |-> [timestamp |-> timestamp, detail |-> plain(treatment_detail)]])
    /\ UNCHANGED <<popped, tree_call, conc_alone, facade, app_alone>>

StackPop ==
    /\ Len(ledgerLog) < MaxCalls
    /\ ledger' = pop(ledger)
    /\ popped' = pop_result(ledger)
    /\ ledgerLog' = Append(ledgerLog, [call |-> "pop", step |-> pop_result(ledger)])
    /\ UNCHANGED <<tree_call, conc_alone, facade, app_alone>>

NextStack == StackPush \/ StackPop

SpecStack == Init /\ [][NextStack]_vars

\* --------------------------------- a SpecializationTree exercised on its own
TreeParents == {"Emergency", "CARDIOLOGY", "NoSuchDept", "X"}
TreeChildren == {"Interventional Cardiology", "X"}
TreeDoctors == {"Dr. Maria Santos"}
TreeDescriptions == {"On call."}

\* what the calls on the tree leave alone
off_tree == <<patient_queue, stacks, patient_records, slot, op, ret, enqLog, deqLog,
              ledger, ledgerLog, popped, conc_alone, app_alone>>

AddSpecialization ==
    /\ Len(specializations) < Len(SeededTree) + MaxAdded
    /\ \E parent_name \in TreeParents, child_name \in TreeChildren :
          /\ specializations' = add_specialization(specializations, parent_name, child_name)
          /\ tree_call' = [call |-> "add_specialization", name |-> parent_name,
                           arg |-> child_name,
                           ret |-> add_specialization_result(specializations, parent_name)]
    /\ UNCHANGED off_tree

AssignDoctor ==
    /\ \E specialization_name \in TreeParents, doctor_name \in TreeDoctors,
          description \in TreeDescriptions :
          /\ specializations' = assign_doctor(specializations, specialization_name,
                                              doctor_name, description)
          /\ tree_call' = [call |-> "assign_doctor", name |-> specialization_name,
                           arg |-> doctor_name,
                           ret |-> assign_doctor_result(specializations,
                                                        specialization_name)]
    /\ UNCHANGED off_tree

NextTree == AddSpecialization \/ AssignDoctor

SpecTree == Init /\ [][NextTree]_vars

\* ----------------------------------------------- the routes of app.py
\* request.json.get(key) of a body without the key, and an empty form field
FormNames == Names \cup {NoneVal}
FormConditions == Conditions \cup {""}
FormDoctors == Doctors \cup {NoneVal}

\* Python's "not x" for an Optional[str]
falsy(x) == x \in {NoneVal, ""}

\* jsonify({"status": ..., "message": ...}), code
Reply(route, code, status, message) ==
    [route |-> route, code |-> code, status |-> status, message |-> message]

\* the route asked and request.json
Request(route, json) == [route |-> route, json |-> json]

\* a route that returns before it calls hms
rejected(reply) ==
    /\ response' = reply
    /\ UNCHANGED <<facade, alone>>

\* GET /index.html of a logged-in session
main_app_page ==
    /\ IF falsy(current_treatment_id) /\ patient_queue.size > 0
       THEN treat_next_patient
       ELSE UNCHANGED <<facade, alone>>
    /\ response' = Reply("/index.html", 200, "page", <<>>)

\* POST /api/register
api_register(name, condition) ==
    IF falsy(name) \/ falsy(condition)
    THEN rejected(Reply("/api/register", 400, "error",
                        <<"Missing name or condition.">>))
    ELSE /\ register_patient(name, condition)
         /\ response' = Reply("/api/register", 200, "success",
                              <<"Patient ", name, " registered to Triage queue.">>)

\* POST /api/treat_next
api_treat_next ==
    /\ treat_next_patient
    /\ response' =
          IF ~falsy(ret')
          THEN Reply("/api/treat_next", 200, "success",
                     <<"Started treating patient ID: ", ret'>>)
          ELSE Reply("/api/treat_next", 200, "info",
                     <<"Queue is empty. No patient to treat.">>)

\* POST /api/add_treatment
api_add_treatment(detail) ==
    IF falsy(current_treatment_id)
    THEN rejected(Reply("/api/add_treatment", 400, "error",
                        <<"No patient currently selected for treatment.">>))
    ELSE /\ add_treatment_step(detail)
         /\ response' =
               IF ret'
               THEN Reply("/api/add_treatment", 200, "success",
                          <<"Treatment step recorded.">>)
               ELSE Reply("/api/add_treatment", 500, "error",
                          <<"Failed to record treatment step.">>)

\* /api/undo_treatment without its check for a current patient
api_undo_treatment_unchecked ==
    /\ undo_last_treatment
    /\ response' =
          IF ret'
          THEN Reply("/api/undo_treatment", 200, "info",
                     <<"Last treatment step successfully undone.">>)
          ELSE Reply("/api/undo_treatment", 200, "info",
                     <<"Treatment history is empty. Nothing to undo.">>)

\* POST /api/undo_treatment
api_undo_treatment ==
    IF falsy(current_treatment_id)
    THEN rejected(Reply("/api/undo_treatment", 400, "error",
                        <<"No patient currently selected for treatment.">>))
    ELSE /\ undo_last_treatment
         /\ response' =
               IF ret'
               THEN Reply("/api/undo_treatment", 200, "info",
                          <<"Last treatment step successfully undone.">>)
               ELSE Reply("/api/undo_treatment", 200, "info",
                          <<"Treatment history is empty. Nothing to undo.">>)

\* POST /api/assign_doctor
api_assign_doctor(doctor_name) ==
    IF falsy(current_treatment_id)
    THEN rejected(Reply("/api/assign_doctor", 400, "error",
                        <<"Please start treating a patient first.">>))
    ELSE /\ assign_doctor_to_current(doctor_name)
         /\ response' =
               IF ret'
               THEN Reply("/api/assign_doctor", 200, "success",
                          <<"Doctor ", doctor_name, " assigned to current patient.">>)
               ELSE Reply("/api/assign_doctor", 500, "error",
                          <<"Failed to assign doctor.">>)

\* one request served
served == requests < MaxRequests /\ requests' = requests + 1

MainAppPage ==
    /\ served
    /\ request' = Request("/index.html", <<>>)
    /\ main_app_page
ApiRegister ==
    /\ served
    /\ \E name \in FormNames, condition \in FormConditions :
          /\ request' = Request("/api/register",
                                [name |-> name, condition |-> condition])
          /\ api_register(name, condition)
ApiTreatNext ==
    /\ served
    /\ request' = Request("/api/treat_next", <<>>)
    /\ api_treat_next
ApiAddTreatment ==
    /\ served
    /\ \E detail \in Details :
          /\ request' = Request("/api/add_treatment", [detail |-> detail])
          /\ api_add_treatment(detail)
ApiUndoTreatment ==
    /\ served
    /\ request' = Request("/api/undo_treatment", <<>>)
    /\ api_undo_treatment
ApiAssignDoctor ==
    /\ served
    /\ \E doctor_name \in FormDoctors :
          /\ request' = Request("/api/assign_doctor", [doctor_name |-> doctor_name])
          /\ api_assign_doctor(doctor_name)

NextApp ==
    \/ MainAppPage
    \/ ApiRegister
    \/ ApiTreatNext
    \/ ApiAddTreatment
    \/ ApiUndoTreatment
    \/ ApiAssignDoctor

SpecApp == Init /\ [][NextApp]_vars

\* ------------------- two request threads on the one hms, statement by statement
\* what the statements of a thread leave alone
off_threads == <<specializations, op, ret, enqLog, deqLog, ledger, ledgerLog, popped,
                 tree_call, app_alone>>

at(th, line) == threads[th].pc = line

\* another thread is inside a facade call
overlap(th) == \E other \in Threads \ {th} : threads[other].pc # "idle"

\* the thread goes on with these locals
goes_on(th, locals) ==
    /\ threads' = [threads EXCEPT ![th] = locals]
    /\ interleaved' = (interleaved \/ overlap(th))
    /\ UNCHANGED off_threads

\* the statement is done, the next one is at line
next_line(th, line) ==
    /\ goes_on(th, [threads[th] EXCEPT !.pc = line])
    /\ UNCHANGED started

\* the call returns, or raises and the route's except clause answers
returns(th) ==
    /\ goes_on(th, Idle)
    /\ UNCHANGED started

\* a route calls hms.register_patient(name, condition)
call_register_patient(th, name, condition) ==
    /\ at(th, "idle")
    /\ started < MaxThreadCalls
    /\ Len(patient_queue.heap) < MaxPatients
    /\ started' = started + 1
    /\ goes_on(th, [Idle EXCEPT !.pc = "35", !.name = name, !.condition = condition])
    /\ UNCHANGED <<patient_queue, stacks, patient_records, slot>>

\* a route calls hms.treat_next_patient()
call_treat_next_patient(th) ==
    /\ at(th, "idle")
    /\ started < MaxThreadCalls
    /\ started' = started + 1
    /\ goes_on(th, [Idle EXCEPT !.pc = "51"])
    /\ UNCHANGED <<patient_queue, stacks, patient_records, slot>>

\* patient_id = str(uuid.uuid4())[:8]; new_patient = PatientNode(...)
enqueue_35(th) ==
    /\ at(th, "35")
    /\ \E patient_id \in uuid4_tokens(patient_queue) :
          patient_queue' = [patient_queue EXCEPT !.heap =
              Append(@, PatientNode(patient_id, threads[th].name, threads[th].condition))]
    /\ goes_on(th, [threads[th] EXCEPT !.pc = "38",
                                       !.new_patient = Len(patient_queue.heap) + 1])
    /\ UNCHANGED <<stacks, patient_records, slot, started>>

\* if self.is_empty():
enqueue_38(th) ==
    /\ at(th, "38")
    /\ next_line(th, IF is_empty(patient_queue) THEN "39" ELSE "42")
    /\ UNCHANGED <<patient_queue, stacks, patient_records, slot>>

\* self.head = new_patient
enqueue_39(th) ==
    /\ at(th, "39")
    /\ patient_queue' = [patient_queue EXCEPT !.head = threads[th].new_patient]
    /\ next_line(th, "40")
    /\ UNCHANGED <<stacks, patient_records, slot>>

\* self.tail = new_patient
enqueue_40(th) ==
    /\ at(th, "40")
    /\ patient_queue' = [patient_queue EXCEPT !.tail = threads[th].new_patient]
    /\ next_line(th, "46")
    /\ UNCHANGED <<stacks, patient_records, slot>>

\* if self.tail:
enqueue_42(th) ==
    /\ at(th, "42")
    /\ next_line(th, IF patient_queue.tail # Null THEN "43" ELSE "44")
    /\ UNCHANGED <<patient_queue, stacks, patient_records, slot>>

\* self.tail.next = new_patient, an AttributeError when self.tail is None by now
enqueue_43(th) ==
    /\ at(th, "43")
    /\ IF patient_queue.tail = Null
       THEN returns(th) /\ UNCHANGED patient_queue
       ELSE /\ patient_queue' = [patient_queue EXCEPT
                                    !.heap[patient_queue.tail].next =
                                        threads[th].new_patient]
            /\ next_line(th, "44")
    /\ UNCHANGED <<stacks, patient_records, slot>>

\* self.tail = new_patient
enqueue_44(th) ==
    /\ at(th, "44")
    /\ patient_queue' = [patient_queue EXCEPT !.tail = threads[th].new_patient]
    /\ next_line(th, "46")
    /\ UNCHANGED <<stacks, patient_records, slot>>

\* self.size += 1; return new_patient
enqueue_46(th) ==
    /\ at(th, "46")
    /\ patient_queue' = [patient_queue EXCEPT !.size = @ + 1]
    /\ next_line(th, "280")
    /\ UNCHANGED <<stacks, patient_records, slot>>

\* new_record = TreatmentStack() and its patient_id and initial_condition
register_patient_280(th) ==
    /\ at(th, "280")
    /\ stacks' = Append(stacks,
           [NewTreatmentStack EXCEPT
               !.patient_id = patient_queue.heap[threads[th].new_patient].patient_id,
               !.initial_condition = threads[th].condition])
    /\ goes_on(th, [threads[th] EXCEPT !.pc = "283", !.new_record = Len(stacks) + 1])
    /\ UNCHANGED <<patient_queue, patient_records, slot, started>>

\* self.patient_records[new_patient.patient_id] = new_record; return
register_patient_283(th) ==
    /\ at(th, "283")
    /\ patient_records' =
           DictSet(patient_records,
                   patient_queue.heap[threads[th].new_patient].patient_id,
                   threads[th].new_record)
    /\ returns(th)
    /\ UNCHANGED <<patient_queue, stacks, slot>>

\* if self.is_empty(): return None
dequeue_51(th) ==
    /\ at(th, "51")
    /\ next_line(th, IF is_empty(patient_queue) THEN "291" ELSE "54")
    /\ UNCHANGED <<patient_queue, stacks, patient_records, slot>>

\* patient_to_treat = self.head
dequeue_54(th) ==
    /\ at(th, "54")
    /\ goes_on(th, [threads[th] EXCEPT !.pc = "55", !.patient = patient_queue.head])
    /\ UNCHANGED <<patient_queue, stacks, patient_records, slot, started>>

\* self.head = self.head.next, an AttributeError when self.head is None by now
dequeue_55(th) ==
    /\ at(th, "55")
    /\ IF patient_queue.head = Null
       THEN returns(th) /\ UNCHANGED patient_queue
       ELSE /\ patient_queue' = [patient_queue EXCEPT
                                    !.head = patient_queue.heap[patient_queue.head].next]
            /\ next_line(th, "57")
    /\ UNCHANGED <<stacks, patient_records, slot>>

\* if self.head is None:
dequeue_57(th) ==
    /\ at(th, "57")
    /\ next_line(th, IF patient_queue.head = Null THEN "58" ELSE "60")
    /\ UNCHANGED <<patient_queue, stacks, patient_records, slot>>

\* self.tail = None
dequeue_58(th) ==
    /\ at(th, "58")
    /\ patient_queue' = [patient_queue EXCEPT !.tail = Null]
    /\ next_line(th, "60")
    /\ UNCHANGED <<stacks, patient_records, slot>>

\* self.size -= 1; return patient_to_treat
dequeue_60(th) ==
    /\ at(th, "60")
    /\ patient_queue' = [patient_queue EXCEPT !.size = @ - 1]
    /\ next_line(th, "291")
    /\ UNCHANGED <<stacks, patient_records, slot>>

\* self.current_treatment_id = None
treat_next_patient_291(th) ==
    /\ at(th, "291")
    /\ current_treatment_id' = NoneVal
    /\ next_line(th, "292")
    /\ UNCHANGED <<patient_queue, stacks, patient_records, current_patient_name,
                   current_patient_condition, current_patient_doctor>>

\* self.current_patient_name = None
treat_next_patient_292(th) ==
    /\ at(th, "292")
    /\ current_patient_name' = NoneVal
    /\ next_line(th, "293")
    /\ UNCHANGED <<patient_queue, stacks, patient_records, current_treatment_id,
                   current_patient_condition, current_patient_doctor>>

\* self.current_patient_condition = None
treat_next_patient_293(th) ==
    /\ at(th, "293")
    /\ current_patient_condition' = NoneVal
    /\ next_line(th, "294")
    /\ UNCHANGED <<patient_queue, stacks, patient_records, current_treatment_id,
                   current_patient_name, current_patient_doctor>>

\* self.current_patient_doctor = None
treat_next_patient_294(th) ==
    /\ at(th, "294")
    /\ current_patient_doctor' = NoneVal
    /\ next_line(th, "296")
    /\ UNCHANGED <<patient_queue, stacks, patient_records, current_treatment_id,
                   current_patient_name, current_patient_condition>>

\* if patient: ... return None
treat_next_patient_296(th) ==
    /\ at(th, "296")
    /\ IF threads[th].patient # Null THEN next_line(th, "297") ELSE returns(th)
    /\ UNCHANGED <<patient_queue, stacks, patient_records, slot>>

\* self.current_treatment_id = patient.patient_id
treat_next_patient_297(th) ==
    /\ at(th, "297")
    /\ current_treatment_id' = patient_queue.heap[threads[th].patient].patient_id
    /\ next_line(th, "298")
    /\ UNCHANGED <<patient_queue, stacks, patient_records, current_patient_name,
                   current_patient_condition, current_patient_doctor>>

\* self.current_patient_name = patient.name
treat_next_patient_298(th) ==
    /\ at(th, "298")
    /\ current_patient_name' = patient_queue.heap[threads[th].patient].name
    /\ next_line(th, "299")
    /\ UNCHANGED <<patient_queue, stacks, patient_records, current_treatment_id,
                   current_patient_condition, current_patient_doctor>>

\* self.current_patient_condition = patient.condition
treat_next_patient_299(th) ==
    /\ at(th, "299")
    /\ current_patient_condition' = patient_queue.heap[threads[th].patient].condition
    /\ next_line(th, "302")
    /\ UNCHANGED <<patient_queue, stacks, patient_records, current_treatment_id,
                   current_patient_name, current_patient_doctor>>

\* record = self.patient_records[patient.patient_id], a KeyError when absent
treat_next_patient_302(th) ==
    /\ at(th, "302")
    /\ IF patient_queue.heap[threads[th].patient].patient_id \in DOMAIN patient_records
       THEN /\ goes_on(th, [threads[th] EXCEPT
                   !.pc = "303",
                   !.record = patient_records[
                       patient_queue.heap[threads[th].patient].patient_id]])
            /\ UNCHANGED started
       ELSE returns(th)
    /\ UNCHANGED <<patient_queue, stacks, patient_records, slot>>

\* record.status = "In Treatment"
treat_next_patient_303(th) ==
    /\ at(th, "303")
    /\ stacks' = [stacks EXCEPT ![threads[th].record].status = "In Treatment"]
    /\ next_line(th, "306")
    /\ UNCHANGED <<patient_queue, patient_records, slot>>

\* record.push(f"Initial Triage for {patient.condition}."); return
treat_next_patient_306(th) ==
    /\ at(th, "306")
    /\ \E timestamp \in Timestamps :
          stacks' = [stacks EXCEPT ![threads[th].record] =
              push(@, timestamp,
                   triage_detail(patient_queue.heap[threads[th].patient].condition))]
    /\ returns(th)
    /\ UNCHANGED <<patient_queue, patient_records, slot>>

CallRegisterPatient ==
    \E th \in Threads, name \in Names, condition \in Conditions :
        call_register_patient(th, name, condition)
CallTreatNextPatient == \E th \in Threads : call_treat_next_patient(th)
Enqueue35 == \E th \in Threads : enqueue_35(th)
Enqueue38 == \E th \in Threads : enqueue_38(th)
Enqueue39 == \E th \in Threads : enqueue_39(th)
Enqueue40 == \E th \in Threads : enqueue_40(th)
Enqueue42 == \E th \in Threads : enqueue_42(th)
Enqueue43 == \E th \in Threads : enqueue_43(th)
Enqueue44 == \E th \in Threads : enqueue_44(th)
Enqueue46 == \E th \in Threads : enqueue_46(th)
RegisterPatient280 == \E th \in Threads : register_patient_280(th)
RegisterPatient283 == \E th \in Threads : register_patient_283(th)
Dequeue51 == \E th \in Threads : dequeue_51(th)
Dequeue54 == \E th \in Threads : dequeue_54(th)
Dequeue55 == \E th \in Threads : dequeue_55(th)
Dequeue57 == \E th \in Threads : dequeue_57(th)
Dequeue58 == \E th \in Threads : dequeue_58(th)
Dequeue60 == \E th \in Threads : dequeue_60(th)
TreatNextPatient291 == \E th \in Threads : treat_next_patient_291(th)
TreatNextPatient292 == \E th \in Threads : treat_next_patient_292(th)
TreatNextPatient293 == \E th \in Threads : treat_next_patient_293(th)
TreatNextPatient294 == \E th \in Threads : treat_next_patient_294(th)
TreatNextPatient296 == \E th \in Threads : treat_next_patient_296(th)
TreatNextPatient297 == \E th \in Threads : treat_next_patient_297(th)
TreatNextPatient298 == \E th \in Threads : treat_next_patient_298(th)
TreatNextPatient299 == \E th \in Threads : treat_next_patient_299(th)
TreatNextPatient302 == \E th \in Threads : treat_next_patient_302(th)
TreatNextPatient303 == \E th \in Threads : treat_next_patient_303(th)
TreatNextPatient306 == \E th \in Threads : treat_next_patient_306(th)

NextConc ==
    \/ CallRegisterPatient
    \/ CallTreatNextPatient
    \/ Enqueue35
    \/ Enqueue38
    \/ Enqueue39
    \/ Enqueue40
    \/ Enqueue42
    \/ Enqueue43
    \/ Enqueue44
    \/ Enqueue46
    \/ RegisterPatient280
    \/ RegisterPatient283
    \/ Dequeue51
    \/ Dequeue54
    \/ Dequeue55
    \/ Dequeue57
    \/ Dequeue58
    \/ Dequeue60
    \/ TreatNextPatient291
    \/ TreatNextPatient292
    \/ TreatNextPatient293
    \/ TreatNextPatient294
    \/ TreatNextPatient296
    \/ TreatNextPatient297
    \/ TreatNextPatient298
    \/ TreatNextPatient299
    \/ TreatNextPatient302
    \/ TreatNextPatient303
    \/ TreatNextPatient306

SpecConc == Init /\ [][NextConc]_vars

\* ------------------------------------------------------------ properties
InTreatment == "In Treatment"

\* C1: whenever the slot's identity is set, a ledger exists under it and its
\* status is "In Treatment".
SlotRefersToLedgerInTreatment ==
    current_treatment_id # NoneVal =>
        /\ current_treatment_id \in DOMAIN patient_records
        /\ record_of(current_treatment_id).status = InTreatment

\* C2 as stated: the four slot fields are all empty or all set.
SlotAllOrNothing ==
    \/ /\ current_treatment_id = NoneVal
       /\ current_patient_name = NoneVal
       /\ current_patient_condition = NoneVal
       /\ current_patient_doctor = NoneVal
    \/ /\ current_treatment_id # NoneVal
       /\ current_patient_name # NoneVal
       /\ current_patient_condition # NoneVal
       /\ current_patient_doctor # NoneVal

\* C2 amended: identity, name and condition of the slot are all empty or all
\* set, and the slot's own physician field is empty in every state.
SlotThreeFieldsTogether ==
    /\ \/ /\ current_treatment_id = NoneVal
          /\ current_patient_name = NoneVal
          /\ current_patient_condition = NoneVal
       \/ /\ current_treatment_id # NoneVal
          /\ current_patient_name # NoneVal
          /\ current_patient_condition # NoneVal
    /\ current_patient_doctor = NoneVal

\* a patient is current and a doctor has just been assigned to them
SlotPopulatedDoctorAssigned ==
    /\ op = "assign_doctor_to_current"
    /\ ret = TRUE
    /\ current_treatment_id # NoneVal
    /\ record_of(current_treatment_id).assigned_doctor \in Doctors

\* C3: FIFO law: the entries dequeued so far followed by the entries to_list
\* shows are exactly the entries enqueued, in arrival order.
FIFOLaw == deqLog \o to_list(patient_queue) = enqLog

\* enqueues and dequeues have interleaved: one entry served, a later
\* registration waiting behind an earlier one
FIFOInterleaved ==
    /\ Len(deqLog) >= 1
    /\ Len(enqLog) = 3
    /\ Len(to_list(patient_queue)) = 2
    /\ op = "register_patient"

\* C4: size is the number of entries reachable from head, which is enqueues
\* minus successful dequeues; head is empty iff tail is empty iff size is 0.
QueueSizeAndEnds ==
    /\ patient_queue.size = Len(to_list(patient_queue))
    /\ patient_queue.size = Len(enqLog) - Len(deqLog)
    /\ (patient_queue.head = Null) <=> (patient_queue.tail = Null)
    /\ (patient_queue.head = Null) <=> (patient_queue.size = 0)

\* the queue has just been emptied by a dequeue
QueueEmptied ==
    /\ op = "treat_next_patient"
    /\ ret # NoneVal
    /\ Len(deqLog) >= 2
    /\ patient_queue.head = Null

\* C5: every identity enqueue generates differs from every earlier one, so
\* there is one ledger per patient ever enqueued.
IdentitiesUnique ==
    /\ \A i, j \in DOMAIN enqLog : i # j => enqLog[i].id # enqLog[j].id
    /\ Cardinality(DOMAIN patient_records) = Len(enqLog)

\* C6: a ledger is never removed, starts as Waiting, changes status only to
\* "In Treatment" and only in the treat_next_patient that dequeues its
\* patient, and once "In Treatment" stays so.
LedgerLifeCycle ==
    [][/\ \A i \in DOMAIN patient_records :
              /\ i \in DOMAIN patient_records'
              /\ record_of(i).status = InTreatment =>
                     stacks'[patient_records'[i]].status = InTreatment
              /\ stacks'[patient_records'[i]].status # record_of(i).status =>
                     /\ record_of(i).status = "Waiting"
                     /\ op' = "treat_next_patient"
                     /\ ret' = i
       /\ \A i \in (DOMAIN patient_records') \ (DOMAIN patient_records) :
              stacks'[patient_records'[i]].status = "Waiting"]_vars

\* C7: a treat_next_patient on a non-empty queue returns the head's identity
\* (the k-th success returns the k-th entry enqueued), removes exactly the
\* head, fills identity, name and condition of the slot from it, sets the
\* ledger's status to "In Treatment" and appends the triage step.
TreatNextServesHead ==
    [][(op' = "treat_next_patient" /\ ~is_empty(patient_queue)) =>
          LET h == patient_queue.heap[patient_queue.head]
              before == record_of(h.patient_id)
              after == stacks'[patient_records'[h.patient_id]]
          IN  /\ ret' = h.patient_id
              /\ ret' = enqLog[Len(deqLog) + 1].id
              /\ to_list(patient_queue') = Tail(to_list(patient_queue))
              /\ patient_queue'.size = patient_queue.size - 1
              /\ current_treatment_id' = h.patient_id
              /\ current_patient_name' = h.name
              /\ current_patient_condition' = h.condition
              /\ after.status = InTreatment
              /\ Len(get_history(after)) >= 1
              /\ Front(get_history(after)) = get_history(before)
              /\ Last(get_history(after)).detail = triage_detail(h.condition)]_vars

\* two patients with different identities have been served, one after the other
TwoServedInOrder ==
    /\ op = "treat_next_patient"
    /\ Len(deqLog) = 2
    /\ deqLog[1].id # deqLog[2].id
    /\ ret = deqLog[2].id

\* C8: treat_next_patient on an empty queue returns None and changes nothing
\* but the slot, which it clears.
TreatNextOnEmptyQueue ==
    [][(op' = "treat_next_patient" /\ is_empty(patient_queue)) =>
          /\ ret' = NoneVal
          /\ UNCHANGED <<patient_queue, stacks, patient_records, specializations>>
          /\ current_treatment_id' = NoneVal
          /\ current_patient_name' = NoneVal
          /\ current_patient_condition' = NoneVal
          /\ current_patient_doctor' = NoneVal]_vars

\* treat_next_patient has found the queue empty after patients were served
EmptyQueueTreated ==
    /\ op = "treat_next_patient"
    /\ ret = NoneVal
    /\ Len(deqLog) >= 2
    /\ current_treatment_id = NoneVal

\* C9: with an empty slot add_treatment_step, undo_last_treatment and
\* assign_doctor_to_current return False and change nothing.
NotPermittedWithoutCurrent ==
    [][(/\ op' \in {"add_treatment_step", "undo_last_treatment",
                    "assign_doctor_to_current"}
        /\ current_treatment_id = NoneVal) =>
          /\ ret' = FALSE
          /\ UNCHANGED <<patient_queue, stacks, patient_records, slot,
                         specializations>>]_vars

\* one of the three has been refused: there is no current patient
RefusedWithoutCurrent ==
    /\ op \in {"add_treatment_step", "undo_last_treatment", "assign_doctor_to_current"}
    /\ ret = FALSE
    /\ current_treatment_id = NoneVal

Max(S) == CHOOSE x \in S : \A y \in S : y <= x

\* the positions in log of the pushes not yet popped after its first n calls:
\* a pop takes away the most recent of them
RECURSIVE LivePushes(_, _)
LivePushes(log, n) ==
    IF n = 0
    THEN {}
    ELSE LET prev == LivePushes(log, n - 1)
         IN  IF log[n].call = "push"
             THEN prev \cup {n}
             ELSE IF prev = {} THEN {} ELSE prev \ {Max(prev)}

\* the steps pushed at the positions S, oldest first
RECURSIVE StepsPushedAt(_, _)
StepsPushedAt(log, S) ==
    IF S = {}
    THEN <<>>
    ELSE Append(StepsPushedAt(log, S \ {Max(S)}), log[Max(S)].step)

\* C10: stack law: each successful pop returns the most recently pushed step
\* not yet popped, and get_history lists the steps pushed and not yet popped,
\* oldest first.
StackLaw ==
    /\ \A i \in DOMAIN ledgerLog :
           (ledgerLog[i].call = "pop" /\ LivePushes(ledgerLog, i - 1) # {}) =>
               ledgerLog[i].step = ledgerLog[Max(LivePushes(ledgerLog, i - 1))].step
    /\ get_history(ledger) =
           StepsPushedAt(ledgerLog, LivePushes(ledgerLog, Len(ledgerLog)))

\* push A, push B, pop, pop has run, with A and B different
PushPushPopPop ==
    /\ Len(ledgerLog) = 4
    /\ ledgerLog[1].call = "push"
    /\ ledgerLog[2].call = "push"
    /\ ledgerLog[3].call = "pop"
    /\ ledgerLog[4].call = "pop"
    /\ ledgerLog[1].step # ledgerLog[2].step
    /\ popped = ledgerLog[1].step

\* C11: popping a ledger whose history is empty returns the empty signal
\* (undo_last_treatment answers False, nothing is raised), leaves that history
\* empty and alters no other ledger; no history ever has negative length.
PopOnEmptyHistory ==
    [][/\ (/\ op' = "undo_last_treatment"
           /\ current_treatment_id # NoneVal
           /\ get_history(record_of(current_treatment_id)) = <<>>) =>
              /\ ret' = FALSE
              /\ pop_result(record_of(current_treatment_id)) = NoStep
              /\ stacks' = stacks
              /\ patient_records' = patient_records
       /\ \A a \in DOMAIN stacks' : Len(get_history(stacks'[a])) >= 0]_vars

\* undo has been asked of a current patient whose history was empty
UndoOnEmptyHistory ==
    /\ op = "undo_last_treatment"
    /\ ret = FALSE
    /\ current_treatment_id # NoneVal
    /\ get_history(record_of(current_treatment_id)) = <<>>

\* C14: assign_doctor_to_current returns False while no patient has been
\* dequeued; with a current patient it returns True, sets the physician of
\* the current patient's ledger only, leaves queue, records dict and slot
\* alone, and get_patient_record and get_status_data report that physician.
AssignDoctorToCurrentLedger ==
    [][op' = "assign_doctor_to_current" =>
          /\ deqLog = <<>> => current_treatment_id = NoneVal
          /\ current_treatment_id = NoneVal => ret' = FALSE
          /\ current_treatment_id # NoneVal =>
                LET a == patient_records[current_treatment_id]
                    d == stacks'[a].assigned_doctor
                IN  /\ ret' = TRUE
                    /\ d \in Doctors
                    /\ stacks' = [stacks EXCEPT ![a].assigned_doctor = d]
                    /\ UNCHANGED <<patient_queue, patient_records, slot>>
                    /\ (get_patient_record(current_treatment_id))'.full_visits[1].assigned_doctor = d
                    /\ get_status_data'.assigned_doctor = d]_vars

\* the second patient served has a doctor, the first one served has none
DoctorAssignedToSecond ==
    /\ op = "assign_doctor_to_current"
    /\ ret = TRUE
    /\ Len(deqLog) = 2
    /\ deqLog[1].id # deqLog[2].id
    /\ get_status_data.assigned_doctor \in Doctors
    /\ record_of(deqLog[1].id).assigned_doctor = NoneVal

\* the entries now in the queue
Queued == { to_list(patient_queue)[i] : i \in 1..Len(to_list(patient_queue)) }

\* get_patient_record shows the patient e as registered and not yet served
ShownAsWaiting(e) ==
    LET visit == get_patient_record(e.id).full_visits[1]
    IN  /\ get_patient_record(e.id) # NoRecord
        /\ visit.condition = e.condition
        /\ visit.status = "Waiting"
        /\ visit.assigned_doctor = NoneVal
        /\ visit.treatment_history = <<>>

\* C15: register_patient always succeeds: one entry appended at the tail, a
\* ledger under the returned identity with status Waiting, the condition, no
\* physician, empty history; slot and every other ledger unchanged; and
\* get_patient_record of a registered identity shows that condition, Waiting
\* and an empty history for as long as the patient is in the queue.
RegisterPatientContract ==
    [][/\ op' = "register_patient" =>
            \E name \in Names, condition \in Conditions :
               /\ to_list(patient_queue)' =
                      Append(to_list(patient_queue),
                             [id |-> ret', name |-> name, condition |-> condition])
               /\ ret' \in DOMAIN patient_records'
               /\ stacks'[patient_records'[ret']] =
                      [NewTreatmentStack EXCEPT !.patient_id = ret',
                                                !.initial_condition = condition]
               /\ UNCHANGED slot
               /\ \A id \in DOMAIN patient_records :
                      /\ id \in DOMAIN patient_records'
                      /\ stacks'[patient_records'[id]] = record_of(id)
       /\ \A e \in Queued' : ShownAsWaiting(e)']_vars

\* C19: get_patient_record answers not-found exactly for the identities
\* without a ledger; otherwise it reports the registered name of every
\* patient still in the queue and the placeholder "Patient <id>" for every
\* patient that has been dequeued, the current one included.
RecordNameRule ==
    /\ \A id \in Ids :
          (get_patient_record(id) = NoRecord) <=> (id \notin DOMAIN patient_records)
    /\ \A e \in Queued : get_patient_record(e.id).name = plain(e.name)
    /\ \A i \in 1..Len(deqLog) :
          get_patient_record(deqLog[i].id).name = placeholder_name(deqLog[i].id)

\* C13: with a current patient, add_treatment_step appends one step to that
\* patient's history and the undo_last_treatment that follows it removes
\* exactly that step, so the history is again what it was before the add;
\* the treat_next_patient that reaches a patient leaves the history as the
\* single auto-triage entry, so add then undo right after it leaves length 1.
UndoRoundTrip ==
    [][/\ (op' = "add_treatment_step" /\ ret' = TRUE) =>
             /\ current_treatment_id' = current_treatment_id
             /\ \E t \in Timestamps, d \in Details :
                   get_history(record_of(current_treatment_id))' =
                       Append(get_history(record_of(current_treatment_id)),
                              [timestamp |-> t, detail |-> plain(d)])
       /\ (op = "add_treatment_step" /\ ret = TRUE /\ op' = "undo_last_treatment") =>
             /\ ret' = TRUE
             /\ current_treatment_id' = current_treatment_id
             /\ get_history(record_of(current_treatment_id))' =
                    Front(get_history(record_of(current_treatment_id)))
       /\ (op' = "treat_next_patient" /\ current_treatment_id' # NoneVal) =>
             \E t \in Timestamps :
                get_history(record_of(current_treatment_id))' =
                    <<[timestamp |-> t,
                       detail |-> triage_detail(current_patient_condition')]>>]_vars

\* the three answers of /api/undo_treatment
UndoNotPermitted ==
    Reply("/api/undo_treatment", 400, "error",
          <<"No patient currently selected for treatment.">>)
UndoNothingToUndo ==
    Reply("/api/undo_treatment", 200, "info",
          <<"Treatment history is empty. Nothing to undo.">>)
UndoSuccess ==
    Reply("/api/undo_treatment", 200, "info",
          <<"Last treatment step successfully undone.">>)

\* what the hospital holds: queue, ledgers, records dict and slot
hospital == <<patient_queue, stacks, patient_records, slot>>

\* C12: /api/undo_treatment gives one of three pairwise different answers:
\* not-permitted exactly when there is no current patient, nothing-to-undo
\* exactly when the current patient's history is empty (nothing changes),
\* success exactly when it is not empty, and then exactly the most recent
\* step of the current patient's ledger is removed.
UndoThreeOutcomes ==
    [][(requests' # requests /\ request'.route = "/api/undo_treatment") =>
          /\ Cardinality({UndoNotPermitted, UndoNothingToUndo, UndoSuccess}) = 3
          /\ response' \in {UndoNotPermitted, UndoNothingToUndo, UndoSuccess}
          /\ (response' = UndoNotPermitted) <=> (current_treatment_id = NoneVal)
          /\ response' = UndoNotPermitted => UNCHANGED hospital
          /\ (response' = UndoNothingToUndo) <=>
                 /\ current_treatment_id # NoneVal
                 /\ get_history(record_of(current_treatment_id)) = <<>>
          /\ response' = UndoNothingToUndo => UNCHANGED hospital
          /\ (response' = UndoSuccess) <=>
                 /\ current_treatment_id # NoneVal
                 /\ get_history(record_of(current_treatment_id)) # <<>>
          /\ response' = UndoSuccess =>
                 /\ stacks' = [stacks EXCEPT
                                  ![patient_records[current_treatment_id]].items =
                                      Front(@)]
                 /\ UNCHANGED <<patient_queue, patient_records, slot>>]_vars

\* an undo request answered with success has removed the triage entry
UndoAnsweredSuccess ==
    /\ request.route = "/api/undo_treatment"
    /\ response = UndoSuccess
    /\ current_treatment_id # NoneVal
    /\ get_history(record_of(current_treatment_id)) = <<>>

\* an answer that rejects the request
Rejection(r) == r.status = "error" /\ r.code >= 400

\* C16: a register request whose name or condition is missing and an
\* assign-doctor request whose doctor_name is missing are answered with a
\* rejection and change neither the queue, nor any ledger, nor the slot.
ValidationRejects ==
    [][requests' # requests =>
          /\ (/\ request'.route = "/api/register"
              /\ falsy(request'.json.name) \/ falsy(request'.json.condition)) =>
                 Rejection(response') /\ UNCHANGED hospital
          /\ (/\ request'.route = "/api/assign_doctor"
              /\ falsy(request'.json.doctor_name)) =>
                 Rejection(response') /\ UNCHANGED hospital]_vars

\* the nodes of the tree under n, parent before children, siblings in
\* insertion order
RECURSIVE PreOrder(_, _)
RECURSIVE PreOrderAll(_, _)
PreOrder(t, n) == <<n>> \o PreOrderAll(t, t[n].children)
PreOrderAll(t, children) ==
    IF children = <<>> THEN <<>>
    ELSE PreOrder(t, Head(children)) \o PreOrderAll(t, Tail(children))

\* the first node of a listing named name ignoring case, Null if none is
RECURSIVE FirstIn(_, _, _)
FirstIn(t, listing, name) ==
    IF listing = <<>> THEN Null
    ELSE IF lower(t[Head(listing)].name) = lower(name) THEN Head(listing)
    ELSE FirstIn(t, Tail(listing), name)

FirstMatch(t, name) == FirstIn(t, PreOrder(t, RootRef), name)

\* the nodes of a listing whose lowered name is in seen or occurs earlier in it
RECURSIVE LaterIn(_, _, _)
LaterIn(t, listing, seen) ==
    IF listing = <<>> THEN {}
    ELSE (IF lower(t[Head(listing)].name) \in seen THEN {Head(listing)} ELSE {})
         \cup LaterIn(t, Tail(listing), seen \cup {lower(t[Head(listing)].name)})

\* the nodes that come after another node of the same name in pre-order
LaterDuplicates(t) == LaterIn(t, PreOrder(t, RootRef), {})

\* C17: add_specialization with a parent name that matches no node returns
\* False and leaves the tree unchanged; with a parent name that matches
\* ignoring case it returns True, appends one new childless node named
\* child as the last child of the matched node, changes nothing else, and
\* a lookup of the child name then succeeds.
AddSpecializationContract ==
    [][(/\ tree_call'.call = "add_specialization"
        /\ tree_call' # tree_call \/ specializations' # specializations) =>
          LET t == specializations
              parent == FirstMatch(t, tree_call'.name)
              new == Len(t) + 1
          IN  IF \A n \in DOMAIN t : lower(t[n].name) # lower(tree_call'.name)
              THEN tree_call'.ret = FALSE /\ specializations' = t
              ELSE /\ tree_call'.ret = TRUE
                   /\ parent # Null
                   /\ specializations' =
                          Append([t EXCEPT ![parent].children = Append(@, new)],
                                 SpecializationNode(tree_call'.arg))
                   /\ Last(specializations'[parent].children) = new
                   /\ find_node(specializations', RootRef, tree_call'.arg) # Null]_vars

\* "Interventional Cardiology" was added under "CARDIOLOGY" and is found
AddedUnderCardiology ==
    /\ tree_call = [call |-> "add_specialization", name |-> "CARDIOLOGY",
                    arg |-> "Interventional Cardiology", ret |-> TRUE]
    /\ find_node(specializations, RootRef, "Interventional Cardiology") # Null
    /\ specializations[find_node(specializations, RootRef, "Interventional Cardiology")].name
           = "Interventional Cardiology"
    /\ Last(specializations[find_node(specializations, RootRef, "Cardiology")].children)
           = find_node(specializations, RootRef, "Interventional Cardiology")

\* C18: _find_node returns the first node in pre-order whose name equals the
\* queried name ignoring case, None if there is none (checked, before every
\* call, for the name the call addresses and for its argument); so a call on
\* a name changes no node but the pre-order-first one of that name, and a
\* node that comes after another of its name is never modified and stays
\* such a later duplicate.
FirstMatchWins ==
    [][/\ \A listing \in {PreOrder(specializations, RootRef)} :
             \A name \in {tree_call'.name, tree_call'.arg} :
                find_node(specializations, RootRef, name) =
                    FirstIn(specializations, listing, name)
       /\ \A addressed \in {FirstMatch(specializations, tree_call'.name)} :
             \A n \in DOMAIN specializations :
                n # addressed => specializations'[n] = specializations[n]
       /\ \A still_later \in {LaterDuplicates(specializations')} :
             \A n \in LaterDuplicates(specializations) :
                /\ specializations'[n] = specializations[n]
                /\ n \in still_later]_vars

\* two nodes are named "X"; the first in pre-order has the doctor and a
\* child, the later one has neither
DuplicateLeftAlone ==
    \E n \in LaterDuplicates(specializations) :
        LET first == FirstMatch(specializations, "X")
        IN  /\ specializations[n].name = "X"
            /\ first # n
            /\ specializations[first].doctors # <<>>
            /\ specializations[first].children # <<>>
            /\ specializations[n].doctors = <<>>
            /\ specializations[n].children = <<>>
            /\ tree_call.name = "X"

\* no thread is inside a facade call
Quiescent == \A th \in Threads : threads[th].pc = "idle"

\* the invariants of the data model: the queue's size is the number of its
\* live entries and its ends are empty together; the slot is fully empty or
\* fully populated and then refers to a ledger whose status is "In Treatment"
DataModelInvariants ==
    /\ patient_queue.size = Len(to_list(patient_queue))
    /\ (patient_queue.head = Null) <=> (patient_queue.tail = Null)
    /\ \/ \A field \in {current_treatment_id, current_patient_name,
                        current_patient_condition, current_patient_doctor} :
             field = NoneVal
       \/ \A field \in {current_treatment_id, current_patient_name,
                        current_patient_condition, current_patient_doctor} :
             field # NoneVal
    /\ current_treatment_id # NoneVal =>
          /\ current_treatment_id \in DOMAIN patient_records
          /\ record_of(current_treatment_id).status = InTreatment

\* C20: when the facade calls of the two threads never overlap, the
\* invariants of the data model hold whenever no call is in progress (only
\* calls that interleave statement by statement can break them).
SequentialCallerSafe == (Quiescent /\ ~interleaved) => DataModelInvariants

\* C21: dequeue on an empty queue returns None and leaves the queue as it
\* is: size stays 0, head and tail stay empty; size is never negative.
DequeueOnEmptyQueue ==
    [][/\ (op' = "treat_next_patient" /\ is_empty(patient_queue)) =>
             /\ dequeue_result(patient_queue) = Null
             /\ ret' = NoneVal
             /\ patient_queue' = patient_queue
             /\ patient_queue'.size = 0
             /\ patient_queue'.head = Null
             /\ patient_queue'.tail = Null
       /\ patient_queue'.size >= 0]_vars

\* every patient, a registered one included, was served and one more
\* treat_next_patient has found the queue empty
DequeuedFromEmptied ==
    /\ op = "treat_next_patient"
    /\ ret = NoneVal
    /\ Len(enqLog) = MaxPatients
    /\ Len(deqLog) = Len(enqLog)
    /\ patient_queue.size = 0

\* identities of the entries now in the queue, one per entry
QueuedAt(patient_id) ==
    {i \in DOMAIN to_list(patient_queue) : to_list(patient_queue)[i].id = patient_id}

\* C22: in every reachable state where the identities drawn so far are
\* unique, every registered identity has exactly one ledger and is either
\* in the queue exactly once with a ledger that is Waiting, without
\* physician and with empty history, or not in the queue with a ledger that
\* is "In Treatment"; no identity is both queued and current.
QueueLedgerPartition ==
    IdentitiesUnique =>
        /\ DOMAIN patient_records = {enqLog[i].id : i \in DOMAIN enqLog}
        /\ Len(stacks) = Len(enqLog)
        /\ \A id1, id2 \in DOMAIN patient_records :
              id1 # id2 => patient_records[id1] # patient_records[id2]
        /\ \A patient_id \in DOMAIN patient_records :
              \/ /\ Cardinality(QueuedAt(patient_id)) = 1
                 /\ record_of(patient_id).status = "Waiting"
                 /\ record_of(patient_id).assigned_doctor = NoneVal
                 /\ get_history(record_of(patient_id)) = <<>>
                 /\ current_treatment_id # patient_id
              \/ /\ QueuedAt(patient_id) = {}
                 /\ record_of(patient_id).status = InTreatment
        /\ \A e \in Queued : e.id \in DOMAIN patient_records

\* three identities, all different: one served earlier, one current with a
\* doctor, one still waiting
PartitionedThree ==
    /\ IdentitiesUnique
    /\ Len(enqLog) = 3
    /\ Len(deqLog) = 2
    /\ current_treatment_id = deqLog[2].id
    /\ record_of(current_treatment_id).assigned_doctor \in Doctors
    /\ patient_queue.size = 1

\* the patients that were current once and no longer are
NoLongerCurrent ==
    {i \in DOMAIN deqLog : i < Len(deqLog) \/ current_treatment_id = NoneVal}

\* C23: add_treatment_step, undo_last_treatment and assign_doctor_to_current
\* change the ledger the slot names and no other ledger, and once a patient
\* has stopped being current the history and the physician recorded under
\* that patient's identity never change again.
OnlyCurrentLedgerWritten ==
    [][/\ (/\ op' \in {"add_treatment_step", "undo_last_treatment",
                       "assign_doctor_to_current"}
           /\ current_treatment_id # NoneVal) =>
             \A a \in DOMAIN stacks :
                a # patient_records[current_treatment_id] => stacks'[a] = stacks[a]
       /\ (/\ op' \in {"add_treatment_step", "undo_last_treatment",
                       "assign_doctor_to_current"}
           /\ current_treatment_id = NoneVal) => stacks' = stacks
       /\ \A i \in NoLongerCurrent :
             /\ deqLog[i].id \in DOMAIN patient_records'
             /\ get_history(stacks'[patient_records'[deqLog[i].id]]) =
                    get_history(record_of(deqLog[i].id))
             /\ stacks'[patient_records'[deqLog[i].id]].assigned_doctor =
                    record_of(deqLog[i].id).assigned_doctor]_vars

\* C24: if treat_next_patient keeps being called, the p-th patient ever
\* enqueued eventually is the current patient with a ledger "In Treatment",
\* whatever is registered afterwards; and the patient at position k of the
\* queue is served by exactly the k-th successful treat_next_patient from
\* then on: a successful call makes position 1 current and moves position
\* k to k - 1, and no other call moves anyone.
NoStarvation ==
    /\ \A p \in 1..MaxPatients :
          (Len(enqLog) >= p) ~>
              (/\ Len(deqLog) >= p
               /\ deqLog[p] = enqLog[p])
    /\ [][/\ deqLog' # deqLog =>
                /\ op' = "treat_next_patient"
                /\ Len(deqLog') = Len(deqLog) + 1
                /\ Last(deqLog') = to_list(patient_queue)[1]
                /\ current_treatment_id' = to_list(patient_queue)[1].id
                /\ current_patient_name' = to_list(patient_queue)[1].name
                /\ stacks'[patient_records'[current_treatment_id']].status = InTreatment
                /\ \A k \in 2..Len(to_list(patient_queue)) :
                      to_list(patient_queue')[k - 1] = to_list(patient_queue)[k]
          /\ deqLog' = deqLog =>
                \A k \in 1..Len(to_list(patient_queue)) :
                   to_list(patient_queue')[k] = to_list(patient_queue)[k]]_vars

\* the patient registered after the two pre-loaded ones is the current one
RegisteredLaterIsCurrent ==
    /\ Len(enqLog) = 3
    /\ Len(deqLog) = 3
    /\ op = "treat_next_patient"
    /\ current_treatment_id = enqLog[3].id
    /\ current_patient_name = enqLog[3].name
    /\ record_of(current_treatment_id).status = InTreatment

====
